---- MODULE Spec2Model ----
(***************************************************************************)
(* tiledir: main() of src/main.rs as a state machine.                      *)
(*                                                                         *)
(* One run of the program is: the thumbnail batch (par_iter over xys),     *)
(* the compositing of the mega image, the coarse batch (one work item per  *)
(* zoom 0..=4) and the fine batch (one work item per grid cell).  The      *)
(* file system is the set of visible destination paths plus the subset of  *)
(* them that hold an incomplete encoding.                                  *)
(*                                                                         *)
(* A work item whose cell has no entry in base_lookup returns at once and  *)
(* changes nothing, so the batches keep only the cells with an entry in    *)
(* todo.  A thumbnail item and a coarse item read no state another item    *)
(* writes and are one step each; a fine item is split where it reads the   *)
(* output tree (fs::metadata) and where it writes it (create_dir_and_save),*)
(* so that two items can both find a destination absent before either      *)
(* writes it.  After the first Err of a batch no new item starts; items    *)
(* already running, at most NumThreads - 1 of them, run to their end.      *)
(*                                                                         *)
(* An image is abstracted to its pixel format and the set of tile_wh-sized *)
(* blocks that hold at least one pixel with non-zero alpha; every crop the *)
(* program takes is aligned to such blocks.                                *)
(***************************************************************************)
EXTENDS Integers, Sequences, FiniteSets, TLC

VARIABLES
    base_lookup,  \* HashMap (x, y) -> image of the file found there
    faults,       \* destinations at which create_dir_and_save fails
    initial,      \* the output tree at the start of the current run
    files,        \* destinations visible in the output tree
    torn,         \* visible destinations holding an incomplete encoding
    run,          \* number of the current run of the program
    pc,           \* "shrink", "coarse", "fine", "done", "failed"
    todo,         \* work items of the current batch not yet started
    err,          \* a work item of the current batch returned Err
    late,         \* items that completed after the first Err of the batch
    shrunk,       \* keys of the shrunk HashMap
    mega,         \* the composite canvas, NoMega before it is allocated
    flight,       \* fine work items in execution: cell -> loop position
    attempts,     \* calls of create_dir_and_save made by the current run
    fineZooms,    \* zoom values the fine batch formatted a dest for
    looked        \* successful base_lookup.get calls: <<batch, coordinate>>

vars == <<base_lookup, faults, initial, files, torn, run, pc, todo,
          err, late, shrunk, mega, flight, attempts, fineZooms, looked>>

----------------------------------------------------------------------------
(* Bounds of the explored inputs and schedules *)

MaxFiles == 2
MaxRuns == 2
NumThreads == 2

----------------------------------------------------------------------------
(* Constants of main *)

base_wh == 4096
tile_wh == 256
tile_per_base == base_wh \div tile_wh
lx == -15
ly == -15
rx == 16
ry == 16
bw == rx - lx
bh == ry - ly
shrunk_res == 256
CoarseMax == 4
FineMax == 4
FineTop == 9

RECURSIVE Pow2(_)
Pow2(n) == IF n = 0 THEN 1 ELSE 2 * Pow2(n - 1)

xys == (0 .. bw - 1) \X (0 .. bh - 1)

Coord(c) == <<c[1] + lx, c[2] + ly>>

mega_res_inner == bw * shrunk_res
mega_res == (bw + 1) * shrunk_res

----------------------------------------------------------------------------
(* Images *)

Blocks == (0 .. tile_per_base - 1) \X (0 .. tile_per_base - 1)

NoTile == [d |-> -1, ty |-> 0, tx |-> 0]
NoMega == [side |-> 0, placed |-> {}]

never_transparent(img) == FALSE
is_entirely_transparent(img) ==
    IF img.fmt = "Rgba8" THEN img.alpha = {} ELSE FALSE

\* crop_imm(x, y, w, h) with x, y, w, h multiples of tile_wh
crop_imm(img, x, y, w, h) ==
    [fmt |-> img.fmt,
     alpha |-> {<<b[1] - x \div tile_wh, b[2] - y \div tile_wh>> :
                  b \in {b \in img.alpha :
                           /\ b[1] * tile_wh >= x /\ b[1] * tile_wh < x + w
                           /\ b[2] * tile_wh >= y /\ b[2] * tile_wh < y + h}}]

----------------------------------------------------------------------------
(* Destination paths: format!("out/{zoom}/{x}/{y}.avif") *)

RECURSIVE Dec(_)
Dec(n) == IF n < 10 THEN <<n>> ELSE Dec(n \div 10) \o <<n % 10>>

Path(zoom, x, y) == <<Dec(zoom), Dec(x), Dec(y)>>

----------------------------------------------------------------------------
(* The tile writer *)

FailSteps == {"create_dir", "encode", "commit"}

Commit(fs, paths) ==
    [files |-> fs.files \cup paths, torn |-> fs.torn \ paths]

\* a writer that encodes straight into the destination file
save_in_place(fs, path, failAt) ==
    IF failAt \in {"encode", "commit"}
    THEN [files |-> fs.files \cup {path}, torn |-> fs.torn \cup {path}]
    ELSE IF failAt = "none" THEN Commit(fs, {path}) ELSE fs

\* create_dir_all, Sponge::new_for, write_image into the sponge, commit
create_dir_and_save(fs, path, failAt) ==
    IF failAt = "none" THEN Commit(fs, {path}) ELSE fs

exists_never(fs, dest) == FALSE
Exists(fs, dest) == dest \in fs.files

----------------------------------------------------------------------------
(* Coarse batch: lines 175-190 *)

crop_wh(side, zoom) == side \div Pow2(zoom)

CoarseTiles(zoom) == (0 .. Pow2(zoom) - 1) \X (0 .. Pow2(zoom) - 1)

\* loop order: for y { for x { .. } }
CoarseKey(zoom, q) == q[2] * Pow2(zoom) + q[1]

CoarsePath(zoom, q) == Path(zoom, q[1], q[2])

\* loop position of the first tile of `bad`, the end of the loop if none
FirstKey(zoom, bad) ==
    IF bad = {} THEN Pow2(zoom) * Pow2(zoom)
    ELSE CHOOSE k \in {CoarseKey(zoom, q) : q \in bad} :
           \A q \in bad : k <= CoarseKey(zoom, q)

----------------------------------------------------------------------------
(* Fine batch: lines 196-247 *)

tiles_flat(d) == tile_per_base
tiles_of(d) == tile_per_base \div Pow2(d)

step_flat(d) == tile_wh
step_of(d) == tile_wh * Pow2(d)

zoom_older(d) == (FineTop - 2) - d
zoom_of(d) == FineTop - d

dxy_sum(i, tiles, t) == i + t
dxy(i, tiles, t) == i * tiles + t

FineTiles ==
    UNION {{[d |-> d, ty |-> ty, tx |-> tx] :
              ty \in 0 .. tiles_of(d) - 1, tx \in 0 .. tiles_of(d) - 1} :
           d \in 0 .. FineMax}

\* loop order: for neg_zoom { for ty { for tx { .. } } }
FineKey(t) == (t.d * tile_per_base + t.ty) * tile_per_base + t.tx

Dest(c, t) ==
    Path(zoom_of(t.d), dxy(c[1], tiles_of(t.d), t.tx), dxy(c[2], tiles_of(t.d), t.ty))

Crop(img, t) ==
    crop_imm(img, t.tx * step_of(t.d), t.ty * step_of(t.d), step_of(t.d), step_of(t.d))

----------------------------------------------------------------------------
(* Explored inputs *)

First == <<lx, ly>>
Second == <<lx + 1, ly>>
Edge == <<rx, ly>>

\* grid coordinates at which the input directory may hold a file: the first
\* cell, its right neighbour, and a cell of the last column of the range
Coords == {First, Second, Edge}

Transparent == [fmt |-> "Rgba8", alpha |-> {}]
Sparse == [fmt |-> "Rgba8", alpha |-> {<<0, 0>>, <<tile_per_base \div 2, 0>>}]
Corrupt == [fmt |-> "Corrupt", alpha |-> {}]
Wide == [fmt |-> "Rgba16", alpha |-> {}]

Images == {Transparent, Sparse, Corrupt}

\* input directories of at most MaxFiles files; the file of the last column
\* is always the same image
Inputs(imgs) ==
    {f \in UNION {[S -> imgs] : S \in SUBSET Coords} :
       /\ Cardinality(DOMAIN f) <= MaxFiles
       /\ Edge \in DOMAIN f => f[Edge] = Sparse}

\* a destination the fine batch writes for the first cell
PreCands == {Path(FineTop, 0, 0)}

\* a destination of the coarse batch and one of the fine batch
FaultCands == {Path(2, 1, 1), Path(FineTop - 1, 0, 0)}

Work == {c \in xys : Coord(c) \in DOMAIN base_lookup}

Fs == [files |-> files, torn |-> torn]

Start(lookup, tree, bad) ==
    /\ base_lookup = lookup
    /\ faults = bad
    /\ initial = tree
    /\ files = tree
    /\ torn = {}
    /\ run = 1
    /\ pc = "shrink"
    /\ todo = {c \in xys : Coord(c) \in DOMAIN lookup}
    /\ err = FALSE
    /\ late = 0
    /\ shrunk = {}
    /\ mega = NoMega
    /\ flight = <<>>
    /\ attempts = {}
    /\ fineZooms = {}
    /\ looked = {}

Init ==
    \E lookup \in Inputs(Images), tree \in SUBSET PreCands, bad \in SUBSET FaultCands :
        Start(lookup, tree, bad)

\* the same input directories, and the one holding a single 16-bit file
InitWide ==
    \E lookup \in Inputs(Images) \cup {[c \in {First} |-> Wide]} :
        Start(lookup, {}, {})

----------------------------------------------------------------------------
(* Thumbnail batch: lines 124-144 *)

MayRun == ~err \/ late < NumThreads - 1

ShrinkCell(c) ==
    /\ pc = "shrink"
    /\ c \in todo
    /\ MayRun
    /\ LET img == base_lookup[Coord(c)] IN
        /\ todo' = todo \ {c}
        /\ looked' = looked \cup {<<"shrunk", Coord(c)>>}
        /\ late' = IF err THEN late + 1 ELSE late
        /\ IF img.fmt = "Corrupt"
           THEN err' = TRUE /\ shrunk' = shrunk
           ELSE /\ err' = err
                /\ shrunk' = IF is_entirely_transparent(img)
                             THEN shrunk ELSE shrunk \cup {c}
    /\ UNCHANGED <<base_lookup, faults, initial, files, torn, run,
                   pc, mega, flight, attempts, fineZooms>>

\* lines 146-169
Composite ==
    /\ pc = "shrink"
    /\ todo = {}
    /\ ~err
    /\ bw = bh
    /\ mega' = [side |-> mega_res,
                placed |-> {[cell |-> c, ox |-> c[1] * shrunk_res,
                             oy |-> c[2] * shrunk_res] :
                              c \in {c \in xys : c \in shrunk}}]
    /\ shrunk' = {}
    /\ pc' = "coarse"
    /\ todo' = 0 .. CoarseMax
    /\ late' = 0
    /\ UNCHANGED <<base_lookup, faults, initial, files, torn, run,
                   err, flight, attempts, fineZooms, looked>>

\* the `?` after a batch: the first Err ends main
Abort ==
    /\ pc \in {"shrink", "coarse", "fine"}
    /\ err
    /\ DOMAIN flight = {}
    /\ pc' = "failed"
    /\ todo' = {}
    /\ UNCHANGED <<base_lookup, faults, initial, files, torn, run,
                   err, late, shrunk, mega, flight, attempts, fineZooms, looked>>

----------------------------------------------------------------------------
(* Coarse batch: one work item per zoom *)

\* one call of create_dir_and_save: its work item, its loop indices x, y and
\* the side cw of the square crop_imm(x * cw, y * cw, cw, cw) it saves
CoarseAttempt(zoom, q) ==
    [by |-> "coarse", cell |-> <<0, 0>>, level |-> zoom, x |-> q[1], y |-> q[2],
     cw |-> crop_wh(mega.side, zoom)]

\* the loop of one zoom: every tile before the first failing one is saved,
\* the failing call returns its Err through `?`
CoarseLevel(zoom) ==
    /\ pc = "coarse"
    /\ zoom \in todo
    /\ MayRun
    /\ \E bad \in {{q \in CoarseTiles(zoom) : CoarsePath(zoom, q) \in faults}} :
       \E stop \in {FirstKey(zoom, bad)} :
       \E fs1 \in {Commit(Fs, {CoarsePath(zoom, q) :
                     q \in {q \in CoarseTiles(zoom) : CoarseKey(zoom, q) < stop}})} :
        /\ attempts' = attempts \cup
              {CoarseAttempt(zoom, q) :
                 q \in {q \in CoarseTiles(zoom) : CoarseKey(zoom, q) <= stop}}
        /\ IF bad = {}
           THEN /\ files' = fs1.files /\ torn' = fs1.torn
                /\ err' = err
           ELSE \E failAt \in FailSteps :
                \E q \in {q \in bad : CoarseKey(zoom, q) = stop} :
                \E fs2 \in {create_dir_and_save(fs1, CoarsePath(zoom, q), failAt)} :
                     /\ files' = fs2.files /\ torn' = fs2.torn
                     /\ err' = TRUE
    /\ todo' = todo \ {zoom}
    /\ late' = IF err THEN late + 1 ELSE late
    /\ UNCHANGED <<base_lookup, faults, initial, run, pc, shrunk,
                   mega, flight, fineZooms, looked>>

CoarseJoin ==
    /\ pc = "coarse"
    /\ todo = {}
    /\ ~err
    /\ mega' = NoMega
    /\ pc' = "fine"
    /\ todo' = Work
    /\ late' = 0
    /\ UNCHANGED <<base_lookup, faults, initial, files, torn, run,
                   err, shrunk, flight, attempts, fineZooms, looked>>

----------------------------------------------------------------------------
(* Fine batch: one work item per cell of xys *)

FineAttempt(c, t) ==
    [by |-> "fine", cell |-> c, level |-> t.d, x |-> t.tx, y |-> t.ty,
     cw |-> step_of(t.d)]

\* lines 197-206: the lookup, image::open and the whole-image test
FineBegin(c) ==
    /\ pc = "fine"
    /\ c \in todo
    /\ ~err
    /\ Cardinality(DOMAIN flight) < NumThreads
    /\ LET img == base_lookup[Coord(c)] IN
        /\ todo' = todo \ {c}
        /\ looked' = looked \cup {<<"fine", Coord(c)>>}
        /\ IF img.fmt = "Corrupt"
           THEN err' = TRUE /\ flight' = flight
           ELSE /\ err' = err
                /\ flight' = IF is_entirely_transparent(img)
                             THEN flight
                             ELSE [k \in DOMAIN flight \cup {c} |->
                                     IF k = c THEN [cur |-> NoTile, saving |-> FALSE]
                                     ELSE flight[k]]
    /\ UNCHANGED <<base_lookup, faults, initial, files, torn, run,
                   pc, late, shrunk, mega, attempts, fineZooms>>

\* the tiles of the loops after position cur
Ahead(cur) == {t \in FineTiles : cur = NoTile \/ FineKey(t) > FineKey(cur)}

FirstTile(S) == CHOOSE t \in S : \A u \in S : FineKey(t) <= FineKey(u)

\* lines 209-230: the loops up to the next tile that is neither present nor
\* transparent; the tiles passed over are the `continue`s
FineScan(c) ==
    /\ pc = "fine"
    /\ c \in DOMAIN flight
    /\ ~flight[c].saving
    /\ \E img \in {base_lookup[Coord(c)]} :
       \E ahead \in {Ahead(flight[c].cur)} :
       \E want \in {{t \in ahead : /\ ~is_entirely_transparent(Crop(img, t))
                                    /\ ~Exists(Fs, Dest(c, t))}} :
          IF want = {}
          THEN /\ flight' = [k \in DOMAIN flight \ {c} |-> flight[k]]
               /\ fineZooms' = fineZooms \cup {zoom_of(t.d) : t \in ahead}
          ELSE \E t \in {FirstTile(want)} :
                  /\ flight' = [flight EXCEPT ![c] = [cur |-> t, saving |-> TRUE]]
                  /\ fineZooms' = fineZooms \cup
                        {zoom_of(u.d) : u \in {u \in ahead : FineKey(u) <= FineKey(t)}}
    /\ UNCHANGED <<base_lookup, faults, initial, files, torn, run,
                   pc, todo, err, late, shrunk, mega, attempts, looked>>

\* lines 231-236: resize and create_dir_and_save(dest, ..)?
FineSave(c) ==
    /\ pc = "fine"
    /\ c \in DOMAIN flight
    /\ flight[c].saving
    /\ \E t \in {flight[c].cur} :
       \E dest \in {Dest(c, t)} :
          /\ attempts' = attempts \cup {FineAttempt(c, t)}
          /\ IF dest \in faults
             THEN \E failAt \in FailSteps :
                  \E fs \in {create_dir_and_save(Fs, dest, failAt)} :
                       /\ files' = fs.files /\ torn' = fs.torn
                       /\ err' = TRUE
                       /\ flight' = [k \in DOMAIN flight \ {c} |-> flight[k]]
             ELSE \E fs \in {create_dir_and_save(Fs, dest, "none")} :
                     /\ files' = fs.files /\ torn' = fs.torn
                     /\ err' = err
                     /\ flight' = [flight EXCEPT ![c].saving = FALSE]
    /\ UNCHANGED <<base_lookup, faults, initial, run, pc, todo,
                   late, shrunk, mega, fineZooms, looked>>

\* line 247-251: the batch returned Ok(())
FineJoin ==
    /\ pc = "fine"
    /\ todo = {}
    /\ DOMAIN flight = {}
    /\ ~err
    /\ pc' = "done"
    /\ UNCHANGED <<base_lookup, faults, initial, files, torn, run,
                   todo, err, late, shrunk, mega, flight, attempts, fineZooms, looked>>

\* the program is started again on the same input directory and the output
\* tree a complete run left
Rerun ==
    /\ pc = "done"
    /\ run < MaxRuns
    /\ run' = run + 1
    /\ initial' = files
    /\ pc' = "shrink"
    /\ todo' = Work
    /\ err' = FALSE
    /\ late' = 0
    /\ shrunk' = {}
    /\ mega' = NoMega
    /\ attempts' = {}
    /\ fineZooms' = {}
    /\ looked' = {}
    /\ UNCHANGED <<base_lookup, faults, files, torn, flight>>

Next ==
    \/ \E c \in todo : ShrinkCell(c)
    \/ Composite
    \/ \E zoom \in 0 .. CoarseMax : CoarseLevel(zoom)
    \/ CoarseJoin
    \/ \E c \in todo : FineBegin(c)
    \/ \E c \in DOMAIN flight : FineScan(c)
    \/ \E c \in DOMAIN flight : FineSave(c)
    \/ FineJoin
    \/ Abort
    \/ Rerun

Spec == Init /\ [][Next]_vars

SpecWide == InitWide /\ [][Next]_vars

----------------------------------------------------------------------------
(* What the claims speak of *)

\* the bounding box, both bounds inclusive
InBox(k) == lx <= k[1] /\ k[1] <= rx /\ ly <= k[2] /\ k[2] <= ry

\* the blocks of the base image that the sub-tile (tx, ty) of depth d covers
CoveredBy(img, d, tx, ty) ==
    {b \in img.alpha : b[1] \div Pow2(d) = tx /\ b[2] \div Pow2(d) = ty}

FineOf(S) == {a \in S : a.by = "fine"}
CoarseOf(S) == {a \in S : a.by = "coarse"}

AttemptPath(a) ==
    IF a.by = "coarse" THEN CoarsePath(a.level, <<a.x, a.y>>)
    ELSE Dest(a.cell, [d |-> a.level, ty |-> a.y, tx |-> a.x])

AttemptZoom(a) == IF a.by = "coarse" THEN a.level ELSE zoom_of(a.level)

\* the tile indices in the destination path
AttemptIndex(a) ==
    IF a.by = "coarse" THEN <<a.x, a.y>>
    ELSE <<dxy(a.cell[1], tiles_of(a.level), a.x), dxy(a.cell[2], tiles_of(a.level), a.y)>>

\* full-resolution pixels per pixel of the composite canvas: a base image of
\* base_wh is resized to shrunk_res and laid at cell * shrunk_res
Scale == base_wh \div shrunk_res

\* the square a saved tile shows, in full-resolution pixels of the whole grid
AttemptSide(a) == IF a.by = "coarse" THEN a.cw * Scale ELSE a.cw
AttemptOrigin(a) ==
    IF a.by = "coarse" THEN <<a.x * a.cw * Scale, a.y * a.cw * Scale>>
    ELSE <<a.cell[1] * base_wh + a.x * a.cw, a.cell[2] * base_wh + a.y * a.cw>>

Max(S) == CHOOSE m \in S : \A n \in S : n <= m

----------------------------------------------------------------------------
(* C1 *)

\* C1: after a run that ends without error, every occupied cell of the
\* bounding box whose image is not entirely transparent has every tile of its
\* fine subtree on disk, out/<9-d>/<x*tiles+tx>/<y*tiles+ty>.avif for d in 0..=4
\* (the tiles of entirely transparent crops excepted, which C3 wants absent).
C1_FineSubtreeExists ==
    pc = "done" =>
      \A k \in DOMAIN base_lookup :
        (InBox(k) /\ base_lookup[k].alpha # {}) =>
          \A d \in 0 .. 4 :
            \A tx \in 0 .. (16 \div Pow2(d)) - 1, ty \in 0 .. (16 \div Pow2(d)) - 1 :
              CoveredBy(base_lookup[k], d, tx, ty) # {} =>
                Path(9 - d, (k[1] - lx) * (16 \div Pow2(d)) + tx,
                            (k[2] - ly) * (16 \div Pow2(d)) + ty) \in files

----------------------------------------------------------------------------
(* C2 *)

\* C2: a run over the output tree a complete run left calls
\* create_dir_and_save for no fine-level destination.
C2_RerunWritesNoFineTile == run > 1 => FineOf(attempts) = {}

\* the second run finished its fine batch over two cells the first run had
\* written tiles for
C2_Witness ==
    /\ run > 1
    /\ pc = "done"
    /\ {First, Second} \subseteq DOMAIN base_lookup
    /\ base_lookup[First] = Sparse /\ base_lookup[Second] = Sparse
    /\ {<<"fine", First>>, <<"fine", Second>>} \subseteq looked

----------------------------------------------------------------------------
(* C3 *)

BaseOf(a) == base_lookup[Coord(a.cell)]

\* C3 as stated: every fine-level write is of a crop with a pixel of non-zero
\* alpha, taken from a base image with a pixel of non-zero alpha.
C3_FineWritesAreVisible ==
    \A a \in FineOf(attempts) :
        /\ BaseOf(a).alpha # {}
        /\ CoveredBy(BaseOf(a), a.level, a.x, a.y) # {}

\* C3 amended: the same for base images decoded as 8-bit RGBA, the only ones
\* is_entirely_transparent examines.
C3_Rgba8WritesAreVisible ==
    \A a \in FineOf(attempts) :
        BaseOf(a).fmt = "Rgba8" =>
            /\ BaseOf(a).alpha # {}
            /\ CoveredBy(BaseOf(a), a.level, a.x, a.y) # {}

\* a run over an 8-bit image with transparent crops and an entirely
\* transparent one has finished and wrote fine tiles
C3_Witness ==
    /\ pc = "done"
    /\ {First, Second} \subseteq DOMAIN base_lookup
    /\ base_lookup[First] = Sparse /\ base_lookup[Second] = Transparent
    /\ FineOf(attempts) # {}

----------------------------------------------------------------------------
(* C4 *)

CoarseZooms == {a.level : a \in CoarseOf(attempts)}

\* C4: the zoom levels of the coarse batch and those the fine batch formats
\* destinations for are disjoint, and when the run is done their union is an
\* integer range starting at 0.
C4_ZoomLevelsPartition ==
    /\ CoarseZooms \cap fineZooms = {}
    /\ pc = "done" => CoarseZooms \cup fineZooms = 0 .. Max(CoarseZooms \cup fineZooms)

\* a finished run in which both batches had tiles to write
C4_Witness == pc = "done" /\ CoarseZooms # {} /\ FineOf(attempts) # {}

----------------------------------------------------------------------------
(* C5 *)

\* C5 as stated: on a square grid the canvas side is bw * shrunk_res.
C5_SideIsWidthTimesRes == (mega # NoMega /\ bw = bh) => mega.side = bw * shrunk_res

\* C5 amended: the canvas side is (bw + 1) * shrunk_res, one thumbnail for each
\* of the columns lx..rx of the bounding box.
C5_SideIsColumnsTimesRes ==
    (mega # NoMega /\ bw = bh) => mega.side = Cardinality(lx .. rx) * shrunk_res

\* the canvas is allocated and holds a thumbnail
C5_Witness == mega # NoMega /\ bw = bh /\ mega.placed # {}

----------------------------------------------------------------------------
(* C6 *)

\* C6: a base tile discovered at a coordinate of the bounding box, bounds
\* included, is looked up by the thumbnail batch and by the fine batch.
C6_BoxIsLookedUp ==
    pc = "done" =>
      \A k \in DOMAIN base_lookup :
        InBox(k) => <<"shrunk", k>> \in looked /\ <<"fine", k>> \in looked

----------------------------------------------------------------------------
(* C7 *)

\* C7: no two write attempts of one run, told apart by (level, x, y) in the
\* coarse batch and by (cell, depth, tx, ty) in the fine batch, have the same
\* destination path.
C7_DestinationsAreOwned ==
    Cardinality({AttemptPath(a) : a \in attempts}) = Cardinality(attempts)

\* both batches wrote, the fine batch from two cells
C7_Witness ==
    /\ CoarseOf(attempts) # {}
    /\ \E a, b \in FineOf(attempts) : a.cell # b.cell

----------------------------------------------------------------------------
(* C8 *)

\* the files a run without failure must leave, from the input directory alone
ExpectedCoarse ==
    UNION {{Path(z, x, y) : x \in 0 .. Pow2(z) - 1, y \in 0 .. Pow2(z) - 1} : z \in 0 .. 4}

\* the blocks in which is_entirely_transparent can see a pixel: it looks at
\* the alpha channel of 8-bit RGBA images only
Seen(img) == IF img.fmt = "Rgba8" THEN img.alpha ELSE Blocks

\* the cells the batches iterate: 0..bw by 0..bh, counted from (lx, ly)
ExpectedFine ==
    UNION {UNION {{Path(9 - d, (k[1] - lx) * (16 \div Pow2(d)) + b[1] \div Pow2(d),
                          (k[2] - ly) * (16 \div Pow2(d)) + b[2] \div Pow2(d)) :
                     b \in Seen(base_lookup[k])} : d \in 0 .. 4} :
           k \in {k \in DOMAIN base_lookup : /\ k[1] \in lx .. rx - 1
                                              /\ k[2] \in ly .. ry - 1}}

\* C8: a run in which no unit fails ends with a set of files that depends on
\* the input directory and the initial output tree only, not on the order or
\* interleaving of the work items.
C8_FinalFilesAreDetermined ==
    pc = "done" => files = initial \cup ExpectedCoarse \cup ExpectedFine

\* a finished run whose fine batch wrote tiles of two cells
C8_Witness ==
    /\ pc = "done"
    /\ \E a, b \in FineOf(attempts) : a.cell # b.cell

----------------------------------------------------------------------------
(* C9 *)

\* C9: whatever failed, a file visible at a destination path holds a complete
\* encoding.
C9_VisibleFilesAreComplete == \A p \in files : p \notin torn

\* a call of create_dir_and_save failed and the run ended with its Err
C9_Witness ==
    /\ pc = "failed"
    /\ \E a \in attempts : AttemptPath(a) \in faults /\ AttemptPath(a) \notin files

----------------------------------------------------------------------------
(* C10 *)

\* C10: a tile written at zoom z has indices in 0 .. 2^z - 1 and shows the
\* square of index (X, Y) in the division of the whole grid into 2^z by 2^z
\* equal squares, the same grid for every zoom of both batches; so tile (X, Y)
\* of zoom z covers what tiles (2X+i, 2Y+j) of zoom z+1 cover.
C10_PyramidIsAligned ==
    /\ \A a \in attempts :
          /\ AttemptIndex(a)[1] \in 0 .. Pow2(AttemptZoom(a)) - 1
          /\ AttemptIndex(a)[2] \in 0 .. Pow2(AttemptZoom(a)) - 1
          /\ AttemptOrigin(a) = <<AttemptIndex(a)[1] * AttemptSide(a),
                                  AttemptIndex(a)[2] * AttemptSide(a)>>
    /\ Cardinality({AttemptSide(a) * Pow2(AttemptZoom(a)) : a \in attempts}) <= 1
    /\ \A p \in mega.placed :
          /\ p.ox * Scale = p.cell[1] * base_wh
          /\ p.oy * Scale = p.cell[2] * base_wh

\* the coarse tile (0, 0) of zoom 4 and its child (1, 0) of zoom 5, written by
\* the fine batch, are both written
C10_Witness ==
    /\ \E a \in CoarseOf(attempts) : a.level = 4 /\ a.x = 0 /\ a.y = 0
    /\ \E a \in FineOf(attempts) : AttemptZoom(a) = 5 /\ AttemptIndex(a) = <<1, 0>>

====
